---- MODULE Spec2Model ----
(***************************************************************************)
(* Dump ingestion pipeline of the retail dashboard backend.                *)
(*                                                                         *)
(* model-server/load_sales_data.py holds two concatenated modules; Python  *)
(* binds a name to its LAST definition, so the loader every caller gets is *)
(* the second load_sales_dataframe (line 380), which uses                  *)
(* _load_from_sql_files, _extract_insert_blocks, _iter_tuple_texts and     *)
(* _parse_insert_values of the first half and _strip_wrapping_quotes,      *)
(* _normalize_text_columns of the second half.                             *)
(*                                                                         *)
(* A text is a sequence of one-character strings.  A Python value is a     *)
(* tagged record [k, v]: None, a str, or a float.                          *)
(***************************************************************************)
EXTENDS Integers, Sequences, FiniteSets, TLC

----------------------------------------------------------------------------
(* Python str helpers *)

WS == {" ", "\n", "\t"}

LowerLetters == <<"a","b","c","d","e","f","g","h","i","j","k","l","m",
                  "n","o","p","q","r","s","t","u","v","w","x","y","z">>

UpperLetters == <<"A","B","C","D","E","F","G","H","I","J","K","L","M",
                  "N","O","P","Q","R","S","T","U","V","W","X","Y","Z">>

upper_char(c) ==
    IF \E i \in 1..Len(LowerLetters) : LowerLetters[i] = c
    THEN UpperLetters[CHOOSE i \in 1..Len(LowerLetters) : LowerLetters[i] = c]
    ELSE c

upper(s) == [i \in 1..Len(s) |-> upper_char(s[i])]

RECURSIVE lstrip(_, _)
lstrip(s, cs) ==
    IF s # <<>> /\ Head(s) \in cs THEN lstrip(Tail(s), cs) ELSE s

RECURSIVE rstrip(_, _)
rstrip(s, cs) ==
    IF s # <<>> /\ s[Len(s)] \in cs
    THEN rstrip(SubSeq(s, 1, Len(s) - 1), cs)
    ELSE s

strip_chars(s, cs) == rstrip(lstrip(s, cs), cs)

strip(s) == strip_chars(s, WS)

\* first position k >= from with s[k] = c, 0 when there is none
IndexOf(s, c, from) ==
    IF \E k \in from..Len(s) : s[k] = c
    THEN CHOOSE k \in from..Len(s) :
             s[k] = c /\ \A j \in from..(k - 1) : s[j] # c
    ELSE 0

RECURSIVE split(_, _)
split(s, sep) ==
    LET i == IndexOf(s, sep, 1)
    IN  IF i = 0
        THEN <<s>>
        ELSE <<SubSeq(s, 1, i - 1)>> \o split(SubSeq(s, i + 1, Len(s)), sep)

----------------------------------------------------------------------------
(* Python values *)

PyNone == [k |-> "None", v |-> <<>>]

PyStr(s) == [k |-> "str", v |-> s]

PyFloat(s) == [k |-> "float", v |-> s]

NaN == [k |-> "float", v |-> <<"n","a","n">>]

----------------------------------------------------------------------------
(* csv.reader(io.StringIO(text), quotechar="'", doublequote=True,          *)
(* skipinitialspace=True): the record the first next() returns.            *)

EOL == "EOL"

csv_save_field(S) == [S EXCEPT !.fields = Append(@, S.field), !.field = <<>>]

csv_add_char(S, c) == [S EXCEPT !.field = Append(@, c)]

csv_start_field(S, c) ==
    IF c \in {"\n", EOL}
    THEN [csv_save_field(S) EXCEPT
             !.st = IF c = EOL THEN "START_RECORD" ELSE "EAT_CRNL"]
    ELSE IF c = "'" THEN [S EXCEPT !.st = "IN_QUOTED_FIELD"]
    ELSE IF c = " " THEN [S EXCEPT !.st = "START_FIELD"]
    ELSE IF c = "," THEN [csv_save_field(S) EXCEPT !.st = "START_FIELD"]
    ELSE [csv_add_char(S, c) EXCEPT !.st = "IN_FIELD"]

csv_process_char(S, c) ==
    CASE S.st = "START_RECORD" ->
            IF c = EOL THEN S
            ELSE IF c = "\n" THEN [S EXCEPT !.st = "EAT_CRNL"]
            ELSE csv_start_field(S, c)
      [] S.st = "START_FIELD" -> csv_start_field(S, c)
      [] S.st = "IN_FIELD" ->
            IF c \in {"\n", EOL}
            THEN [csv_save_field(S) EXCEPT
                     !.st = IF c = EOL THEN "START_RECORD" ELSE "EAT_CRNL"]
            ELSE IF c = "," THEN [csv_save_field(S) EXCEPT !.st = "START_FIELD"]
            ELSE csv_add_char(S, c)
      [] S.st = "IN_QUOTED_FIELD" ->
            IF c = EOL THEN S
            ELSE IF c = "'" THEN [S EXCEPT !.st = "QUOTE_IN_QUOTED_FIELD"]
            ELSE csv_add_char(S, c)
      [] S.st = "QUOTE_IN_QUOTED_FIELD" ->
            IF c = "'" THEN [csv_add_char(S, c) EXCEPT !.st = "IN_QUOTED_FIELD"]
            ELSE IF c = "," THEN [csv_save_field(S) EXCEPT !.st = "START_FIELD"]
            ELSE IF c \in {"\n", EOL}
            THEN [csv_save_field(S) EXCEPT
                     !.st = IF c = EOL THEN "START_RECORD" ELSE "EAT_CRNL"]
            ELSE [csv_add_char(S, c) EXCEPT !.st = "IN_FIELD"]
      [] S.st = "EAT_CRNL" ->
            IF c = "\n" THEN S
            ELSE IF c = EOL THEN [S EXCEPT !.st = "START_RECORD"]
            ELSE [S EXCEPT !.st = "ERROR"]

\* the end of a line: the parser is told so with EOL
csv_end_of_line(S, eol) == IF eol THEN csv_process_char(S, EOL) ELSE S

\* Reader.__next__: the record is complete when the line has ended and the
\* parser is back in START_RECORD
csv_record_or_next(S, eol) == [done |-> eol /\ S.st = "START_RECORD", S |-> S]

\* Reader.__next__: lines are fed one at a time, each followed by EOL;
\* nothing is read after the record is complete
csv_feed(R, c, eol) ==
    IF R.done THEN R
    ELSE csv_record_or_next(csv_end_of_line(csv_process_char(R.S, c), eol), eol)

\* the characters lo..hi of the text fed in order, one half after the
\* other, until the record is complete
RECURSIVE csv_iternext(_, _, _, _)
csv_iternext(text, lo, hi, R) ==
    IF R.done \/ lo > hi THEN R
    ELSE IF lo = hi
    THEN csv_feed(R, text[lo], text[lo] = "\n" \/ lo = Len(text))
    ELSE csv_iternext(text, ((lo + hi) \div 2) + 1, hi,
                      csv_iternext(text, lo, (lo + hi) \div 2, R))

\* the record returned, or what is left at the end of the input
csv_record(R) ==
    IF R.done THEN R.S.fields
    ELSE IF R.S.field # <<>> \/ R.S.st = "IN_QUOTED_FIELD"
    THEN csv_save_field(R.S).fields
    ELSE <<>>

csv_first_row(text) ==
    csv_record(csv_iternext(text, 1, Len(text),
                            [done |-> FALSE,
                             S |-> [st |-> "START_RECORD", field |-> <<>>,
                                    fields |-> <<>>]]))

----------------------------------------------------------------------------
(* load_sales_data.py, first half: the parsers *)

NULL_TOKEN == <<"N","U","L","L">>

\* lines 101-105: the stripped text of a field, None for the token NULL
parse_cell(vv) == IF upper(vv) = NULL_TOKEN THEN PyNone ELSE PyStr(vv)

\* lines 96-105: for v in row
parse_row(row) == [j \in 1..Len(row) |-> parse_cell(strip(row[j]))]

_parse_insert_values(tuple_text) == parse_row(csv_first_row(tuple_text))

KW_INSERT == <<"I","N","S","E","R","T">>

KW_INTO == <<"I","N","T","O">>

\* the table the statements are for is other_data
KW_TABLE_other == <<"o","t","h","e","r","_","d","a","t","a">>

KW_TABLE == <<"s","a","l","e","s","_","d","a","t","a">>

KW_VALUES == <<"V","A","L","U","E","S">>

\* re.IGNORECASE literal match of word w at position i
MatchWord(s, i, w) ==
    /\ i + Len(w) - 1 <= Len(s)
    /\ \A k \in 1..Len(w) : upper_char(s[i + k - 1]) = upper_char(w[k])

\* \s* from position i: the first position that holds no whitespace
RECURSIVE SkipWS(_, _)
SkipWS(s, i) == IF i <= Len(s) /\ s[i] \in WS THEN SkipWS(s, i + 1) ELSE i

\* one attempt of insert_re at position i:
\* INSERT\s+INTO\s+sales_data\s*\((?P<cols>[^)]+)\)\s*VALUES\s*(?P<vals>.*?);
MatchInsertAt(s, i) ==
    LET fail == [ok |-> FALSE, cols |-> <<>>, vals |-> <<>>, end |-> i]
        a == i + Len(KW_INSERT)
        b == SkipWS(s, a)
        c == b + Len(KW_INTO)
        d == SkipWS(s, c)
        e == d + Len(KW_TABLE)
        f == SkipWS(s, e)
        g == IndexOf(s, ")", f + 1)
        h == SkipWS(s, g + 1)
        u == h + Len(KW_VALUES)
        w == SkipWS(s, u)
        z == IndexOf(s, ";", w)
    IN  IF ~MatchWord(s, i, KW_INSERT) \/ b = a THEN fail
        ELSE IF ~MatchWord(s, b, KW_INTO) \/ d = c THEN fail
        ELSE IF ~MatchWord(s, d, KW_TABLE) THEN fail
        ELSE IF f > Len(s) \/ s[f] # "(" THEN fail
        ELSE IF g = 0 \/ g = f + 1 THEN fail
        ELSE IF ~MatchWord(s, h, KW_VALUES) THEN fail
        ELSE IF z = 0 THEN fail
        ELSE [ok |-> TRUE, cols |-> SubSeq(s, f + 1, g - 1),
              vals |-> SubSeq(s, w, z - 1), end |-> z + 1]

\* insert_re.finditer(sql): leftmost matches, each search resuming at the
\* end of the previous match
RECURSIVE finditer(_, _)
finditer_from(s, i, m) ==
    IF m.ok THEN <<m>> \o finditer(s, m.end) ELSE finditer(s, i + 1)

finditer(s, i) ==
    IF i > Len(s) THEN <<>> ELSE finditer_from(s, i, MatchInsertAt(s, i))

\* line 124: the column names, stripped of whitespace and double quotes
cols_of(raw) == [j \in 1..Len(raw) |-> strip_chars(strip(raw[j]), {"\""})]

\* lines 122-126: one (cols, vals) pair per match
blocks_of(ms) ==
    [n \in 1..Len(ms) |->
        [cols |-> cols_of(split(ms[n].cols, ",")), vals |-> strip(ms[n].vals)]]

_extract_insert_blocks(sql) == blocks_of(finditer(sql, 1))

\* the scan without the quote state: every parenthesis counts
RECURSIVE iter_tuple_texts_noquote(_, _, _, _)
iter_tuple_texts_noquote(b, i, in_quote, start_idx) ==
    IF i > Len(b) THEN <<>>
    ELSE IF b[i] = "(" /\ start_idx = 0
    THEN iter_tuple_texts_noquote(b, i + 1, in_quote, i + 1)
    ELSE IF b[i] = ")" /\ start_idx # 0
    THEN <<SubSeq(b, start_idx, i - 1)>>
             \o iter_tuple_texts_noquote(b, i + 1, in_quote, 0)
    ELSE iter_tuple_texts_noquote(b, i + 1, in_quote, start_idx)

\* an opening parenthesis opens a tuple anew while one is open
RECURSIVE iter_tuple_texts_reopen(_, _, _, _)
iter_tuple_texts_reopen(b, i, in_quote, start_idx) ==
    IF i > Len(b) THEN <<>>
    ELSE IF b[i] = "'"
    THEN IF in_quote /\ i + 1 <= Len(b) /\ b[i + 1] = "'"
         THEN iter_tuple_texts_reopen(b, i + 2, in_quote, start_idx)
         ELSE iter_tuple_texts_reopen(b, i + 1, ~in_quote, start_idx)
    ELSE IF ~in_quote /\ b[i] = "("
    THEN iter_tuple_texts_reopen(b, i + 1, in_quote, i + 1)
    ELSE IF ~in_quote /\ b[i] = ")" /\ start_idx # 0
    THEN <<SubSeq(b, start_idx, i - 1)>>
             \o iter_tuple_texts_reopen(b, i + 1, in_quote, 0)
    ELSE iter_tuple_texts_reopen(b, i + 1, in_quote, start_idx)

\* start_idx = 0 stands for None; positions are 1-based
\* the first position from i on that holds a quote or a parenthesis, the
\* position after the end when there is none: the loop does nothing at the
\* characters before it
NextMark(b, i) ==
    IF \E k \in i..Len(b) : b[k] \in {"'", "(", ")"}
    THEN CHOOSE k \in i..Len(b) :
             /\ b[k] \in {"'", "(", ")"}
             /\ \A j \in i..(k - 1) : b[j] \notin {"'", "(", ")"}
    ELSE Len(b) + 1

RECURSIVE iter_tuple_texts_from(_, _, _, _)
iter_tuple_texts_from(b, i, in_quote, start_idx) ==
    IF i > Len(b) THEN <<>>
    ELSE IF b[i] = "'"
    THEN IF in_quote /\ i + 1 <= Len(b) /\ b[i + 1] = "'"
         THEN iter_tuple_texts_from(b, i + 2, in_quote, start_idx)
         ELSE iter_tuple_texts_from(b, i + 1, ~in_quote, start_idx)
    ELSE IF ~in_quote /\ b[i] = "(" /\ start_idx = 0
    THEN iter_tuple_texts_from(b, i + 1, in_quote, i + 1)
    ELSE IF ~in_quote /\ b[i] = ")" /\ start_idx # 0
    THEN <<SubSeq(b, start_idx, i - 1)>>
             \o iter_tuple_texts_from(b, i + 1, in_quote, 0)
    ELSE iter_tuple_texts_from(b, NextMark(b, i + 1), in_quote, start_idx)

_iter_tuple_texts(values_blob) == iter_tuple_texts_from(values_blob, 1, FALSE, 0)

----------------------------------------------------------------------------
(* pandas *)

NoneDF == [k |-> "None", cols |-> <<>>, rows |-> <<>>]

Raised(e) == [k |-> e, cols |-> <<>>, rows |-> <<>>]

IsDataFrame(o) == o.k = "DataFrame"

IsRaise(o) == o.k \in {"ValueError", "TypeError", "AttributeError", "OSError"}

MaxOf(S) ==
    IF S = {} THEN 0
    ELSE LET e == CHOOSE e \in S : \A o \in S : o <= e IN e

\* pd.DataFrame(rows, columns=cols): the data is as wide as its longest row;
\* a width other than len(columns) raises ValueError, shorter rows are
\* padded with None
DataFrame(rows, columns) ==
    LET width == MaxOf({Len(rows[i]) : i \in 1..Len(rows)})
    IN  IF width # Len(columns)
        THEN Raised("ValueError")
        ELSE [k |-> "DataFrame", cols |-> columns,
              rows |-> [i \in 1..Len(rows) |->
                          [j \in 1..width |->
                              IF j <= Len(rows[i]) THEN rows[i][j] ELSE PyNone]]]

Digits == {"0","1","2","3","4","5","6","7","8","9"}

\* a decimal numeral: digits with at most one point
IsNumeral(s) ==
    /\ \E i \in 1..Len(s) : s[i] \in Digits
    /\ \A i \in 1..Len(s) : s[i] \in Digits \cup {"."}
    /\ Cardinality({i \in 1..Len(s) : s[i] = "."}) <= 1

\* pd.to_numeric(series, errors="coerce") on one cell
to_numeric(cell) ==
    IF cell.k = "str" /\ IsNumeral(strip(cell.v)) THEN PyFloat(strip(cell.v))
    ELSE IF cell.k = "float" THEN cell
    ELSE NaN

\* the cached object itself handed out
copy_same_object(ref) == ref

\* df.copy() is a new object: a reference to it is private to its holder,
\* whereas a reference to the cached object itself is shared with the cache
copy(ref) == "private"

----------------------------------------------------------------------------
(* load_sales_data.py, second half *)

\* _strip_wrapping_quotes (second definition) on one cell
_strip_wrapping_quotes(cell) ==
    IF cell.k # "str" THEN cell
    ELSE LET t == strip(cell.v)
         IN  IF Len(t) >= 2 /\ (\/ (t[1] = "'" /\ t[Len(t)] = "'")
                                \/ (t[1] = "\"" /\ t[Len(t)] = "\""))
             THEN PyStr(strip(SubSeq(t, 2, Len(t) - 1)))
             ELSE PyStr(t)

\* every column built from parsed tuples has dtype object
_normalize_text_columns(df) ==
    [df EXCEPT !.rows = [i \in 1..Len(df.rows) |->
                           [j \in 1..Len(df.rows[i]) |->
                               _strip_wrapping_quotes(df.rows[i][j])]]]

COL_city == <<"c","i","t","y">>

COL_country == <<"c","o","u","n","t","r","y">>

COL_store_name == <<"s","t","o","r","e","_","n","a","m","e">>

COL_product_name == <<"p","r","o","d","u","c","t","_","n","a","m","e">>

COL_quantity == <<"q","u","a","n","t","i","t","y">>

COL_total_sales == <<"t","o","t","a","l","_","s","a","l","e","s">>

COL_price == <<"p","r","i","c","e">>

rename_map(c) ==
    IF c = COL_city THEN <<"C","i","t","y">>
    ELSE IF c = COL_country THEN <<"C","o","u","n","t","r","y">>
    ELSE IF c = COL_store_name THEN <<"S","t","o","r","e","_","N","a","m","e">>
    ELSE IF c = COL_product_name
         THEN <<"P","r","o","d","u","c","t","_","N","a","m","e">>
    ELSE c

\* a column of the scenario, not one of the real dumps
COL_amount == <<"a","m","o","u","n","t">>

\* amount coerced too
NumericCols_amount == {COL_quantity, COL_total_sales, COL_price, COL_amount}

NumericCols == {COL_quantity, COL_total_sales, COL_price}

\* lines 402-413 of load_sales_dataframe: rename, normalise, coerce
Canonicalize(df0) ==
    LET df == _normalize_text_columns(
                  [df0 EXCEPT !.cols = [j \in 1..Len(df0.cols) |-> rename_map(df0.cols[j])]])
    IN  [df EXCEPT !.rows = [i \in 1..Len(df.rows) |->
                               [j \in 1..Len(df.rows[i]) |->
                                   IF df.cols[j] \in NumericCols
                                   THEN to_numeric(df.rows[i][j])
                                   ELSE df.rows[i][j]]]]

----------------------------------------------------------------------------
(* The dump files.  A file of the expected list is missing, readable (ok)  *)
(* or present but unreadable; it holds one of the texts below.             *)

NumFiles == 2

MaxTime == 1

MaxConcTime == 2

Hdr(cols) ==
    KW_INSERT \o <<" ">> \o KW_INTO \o <<" ">> \o KW_TABLE \o <<" ", "(">>
        \o cols \o <<")", " ">> \o KW_VALUES \o <<"\n">>

CityPrice == COL_city \o <<",">> \o COL_price

\* ('A',2),(NULL,x);  well formed, with a NULL and a non-numeric price
TXT_ONE ==
    Hdr(CityPrice) \o <<"(","'","A","'",",","2",")",",","\n",
                        "(","N","U","L","L",",","x",")",";">>

\* ('C',4),('D');  the second tuple has one field fewer than the schema
TXT_SHORT ==
    Hdr(CityPrice) \o <<"(","'","C","'",",","4",")",",",
                        "(","'","D","'",")",";">>

\* ('E',5,6);  one field more than the schema
TXT_LONG == Hdr(CityPrice) \o <<"(","'","E","'",",","5",",","6",")",";">>

\* INSERT INTO sales_data VALUES ('G',7);  a header without column list
TXT_NOCOLS ==
    KW_INSERT \o <<" ">> \o KW_INTO \o <<" ">> \o KW_TABLE \o <<" ">>
        \o KW_VALUES \o <<" ","(","'","G","'",",","7",")",";">>

\* a block of another column count: (city) VALUES ('F');
TXT_ONECOL == Hdr(COL_city) \o <<"(","'","F","'",")",";">>

\* (id, name, <third>) VALUES
\*   (1, 'O''Brien', 19.99),
\*   (2, NULL, 5),
\*   (3, 'A, B', 'x');
TXT_SCENARIO(third) ==
    Hdr(<<"i","d",","," ","n","a","m","e",","," ">> \o third)
        \o <<" "," ","(","1",","," ","'","O","'","'","B","r","i","e","n",
          "'",","," ","1","9",".","9","9",")",",","\n"," "," ","(","2",
          ","," ","N","U","L","L",","," ","5",")",",","\n"," "," ","(",
          "3",","," ","'","A",","," ","B","'",","," ","'","x","'",")",
          ";">>

\* two statements in one file: ('P',1),('Q',2); then ('R',3);
TXT_TWOBLOCKS ==
    Hdr(CityPrice) \o <<"(","'","P","'",",","1",")",",","(","'","Q","'",",","2",")",
          ";","\n">>
        \o Hdr(CityPrice) \o <<"(","'","R","'",",","3",")",";">>

\* three statements over several lines, the second for another table:
\*   ('P',1),
\*   ('Q',2);  INSERT INTO other_data (city,price) VALUES ('Z',9);  ('R',3);
TXT_MIXED ==
    Hdr(CityPrice) \o <<"(","'","P","'",",","1",")",",","\n","(","'","Q","'",",","2",
        ")",";","\n">>
        \o <<"I","N","S","E","R","T"," ","I","N","T","O"," ","o","t","h",
        "e","r","_","d","a","t","a"," ","(","c","i","t","y",",","p",
        "r","i","c","e",")"," ","V","A","L","U","E","S","\n","(","'",
        "Z","'",",","9",")",";","\n">>
        \o Hdr(CityPrice) \o <<"(","'","R","'",",","3",")",";">>

\* a statement for another table only
TXT_OTHER ==
    <<"I","N","S","E","R","T"," ","I","N","T","O"," ","o","t","h",
    "e","r","_","d","a","t","a"," ","(","c","i","t","y",",","p",
    "r","i","c","e",")"," ","V","A","L","U","E","S"," ","(","'",
    "Z","'",",","9",")",";">>

\* (country,price) VALUES ;  a block with no tuple, then (city,price) ('R',3);
TXT_EMPTYFIRST ==
    Hdr(COL_country \o <<",">> \o COL_price) \o <<";", "\n">>
        \o Hdr(CityPrice) \o <<"(","'","R","'",",","3",")",";">>

\* ('x;y',1),('S',4);  a semicolon inside a string, then ('R',3);
TXT_SEMI ==
    Hdr(CityPrice) \o <<"(","'","x",";","y","'",",","1",")",",","(","'","S","'",",",
        "4",")",";","\n">>
        \o Hdr(CityPrice) \o <<"(","'","R","'",",","3",")",";">>

\* (city,quantity,price) VALUES ('T',x,y),('U',3,4);  cells that are no numbers
TXT_BADNUM ==
    Hdr(COL_city \o <<",">> \o COL_quantity \o <<",">> \o COL_price)
        \o <<"(","'","T","'",",","x",",","y",")",",","(","'","U","'",",",
        "3",",","4",")",";">>

Texts == <<TXT_ONE, TXT_SHORT, TXT_LONG, TXT_NOCOLS, TXT_ONECOL>>

TextIds == 1..Len(Texts)

\* the texts of the end-to-end scenarios, numbered after Texts
ScenarioTexts ==
    <<TXT_SCENARIO(COL_amount), TXT_SCENARIO(COL_price), TXT_TWOBLOCKS>>

\* the texts for the claims on statements and blocks, numbered after those
BlockTexts == <<TXT_MIXED, TXT_OTHER, TXT_EMPTYFIRST, TXT_SEMI, TXT_BADNUM>>

AllTexts == Texts \o ScenarioTexts \o BlockTexts

Files == 1..NumFiles

Times == 0..MaxTime

Missing == [st |-> "missing", mtime |-> 0, text |-> 0]

\* lines 169-170: the parsed tuples of one block
rows_of(ts) == [j \in 1..Len(ts) |-> _parse_insert_values(ts[j])]

\* lines 167-170: the blocks of one file with their parsed tuples
parsed_blocks(bs) ==
    [n \in 1..Len(bs) |->
        [cols |-> bs[n].cols, rows |-> rows_of(_iter_tuple_texts(bs[n].vals))]]

BlocksOf(text) == parsed_blocks(_extract_insert_blocks(text))

\* every text a file of the model can hold, parsed once
ParsedTexts == [n \in 1..Len(AllTexts) |-> BlocksOf(AllTexts[n])]

\* p.read_text(...): the text, or an exception for a missing or unreadable file
read_text(F, f) ==
    IF F[f].st = "ok" THEN [ok |-> TRUE, blocks |-> ParsedTexts[F[f].text]]
    ELSE [ok |-> FALSE, blocks |-> <<>>]

RECURSIVE load_blocks(_, _, _)
load_blocks(blocks, n, acc) ==
    IF n > Len(blocks) THEN acc
    ELSE load_blocks(blocks, n + 1,
             [cols_final |-> IF acc.cols_final # <<>> THEN acc.cols_final
                             ELSE blocks[n].cols,
              rows |-> acc.rows \o blocks[n].rows])

\* the loop left at the first file whose read fails, instead of going on
RECURSIVE load_files_break(_, _, _)
load_files_break(F, f, acc) ==
    IF f > NumFiles THEN acc
    ELSE LET r == read_text(F, f)
         IN  IF ~r.ok THEN acc
             ELSE load_files_break(F, f + 1, load_blocks(r.blocks, 1, acc))

\* lines 163-170: one file; a failed read leaves rows and cols_final alone
load_file(r, acc) == IF ~r.ok THEN acc ELSE load_blocks(r.blocks, 1, acc)

\* the files taken from the last to the first
RECURSIVE load_files_desc(_, _, _)
load_files_desc(F, f, acc) ==
    IF f > NumFiles THEN acc
    ELSE load_file(read_text(F, f), load_files_desc(F, f + 1, acc))

RECURSIVE load_files(_, _, _)
load_files(F, f, acc) ==
    IF f > NumFiles THEN acc
    ELSE load_files(F, f + 1, load_file(read_text(F, f), acc))

\* a table needs two rows
_load_from_sql_files_two(F) ==
    LET acc == load_files(F, 1, [cols_final |-> <<>>, rows |-> <<>>])
    IN  IF Len(acc.rows) <= 1 \/ acc.cols_final = <<>> THEN NoneDF
        ELSE DataFrame(acc.rows, acc.cols_final)

\* lines 172-175
frame_of(acc) ==
    IF acc.rows = <<>> \/ acc.cols_final = <<>> THEN NoneDF
    ELSE DataFrame(acc.rows, acc.cols_final)

_load_from_sql_files(F) ==
    frame_of(load_files(F, 1, [cols_final |-> <<>>, rows |-> <<>>]))

\* max(mtimes, default=0.0) over the files that exist
_source_mtime(F) == MaxOf({F[f].mtime : f \in {g \in Files : F[g].st # "missing"}})

\* the parameter names of the load_sales_dataframe that is bound (line 380)
load_sales_dataframe_params == {}

----------------------------------------------------------------------------
(* State *)

VARIABLES
    fs,            \* the expected dump files: [Files -> [st, mtime, text]]
    _cache_df,     \* module global: NoneDF or the cached DataFrame
    _cache_mtime,  \* module global: the signature stored with the cache
    held,          \* the consumer's reference to a returned table
    muts,          \* the consumer mutated a returned table since the last store
    last,          \* the latest call, until the files change again
    built,         \* the table the latest store put into the cache
    built_sig,     \* the signature that table was built for
    pc,            \* concurrent callers: position of each thread
    mt,            \* concurrent callers: local variable mtime
    loc,           \* concurrent callers: local variable df
    res,           \* concurrent callers: what the call returned
    fresh,         \* concurrent callers: the call began after the last change
    arg,           \* a parser applied on its own: the argument
    ret,           \* a parser applied on its own: what it returned
    fn,            \* a parser applied on its own: which one, "none" before
    info,          \* what the latest get_data_source_info() returned
    comments_csv,  \* backend/data/inventory_comments.csv: exists, header, rows
    critical,      \* the inventory pipeline: its critical rows, or it raises
    req,           \* the latest HTTP request
    resp           \* the response to it

vars == <<fs, _cache_df, _cache_mtime, held, muts, last, built, built_sig,
          pc, mt, loc, res, fresh, arg, ret, fn, info, comments_csv, critical, req, resp>>

Threads == 1..2

\* kind: none, load, force, or what happened to one file since a load, no
\* call since: mod1 (rewritten, content and modification time), add (a new
\* file), remove (a file deleted)
NoCall ==
    [kind |-> "none", out |-> NoneDF, reads |-> 0, hit |-> FALSE,
     after |-> "none", had_cache |-> FALSE, prev |-> "none", same |-> FALSE,
     mtime |-> 0, muts |-> FALSE]

\* get_data_source_info not called yet
NoInfo == [calls |-> 0, source |-> "", sql_file_count |-> 0, quantity_unit |-> ""]

\* no comments file on disk
NoCommentsFile == [exists |-> FALSE, header |-> FALSE, rows |-> <<>>]

NoRequest ==
    [path |-> "none", body |-> "none", product_name |-> "absent",
     store_name |-> "absent", comment |-> "absent", author |-> "absent",
     limit |-> 0]

\* status 0: no request answered yet
NoResponse ==
    [status |-> 0, ok |-> FALSE, error |-> FALSE, comments |-> <<>>,
     before |-> <<>>, critical_count |-> 0, critical_items |-> <<>>]

\* an argument: f names the parser it is for, the other fields are empty
NoArg == [f |-> "none", s |-> <<>>, inners |-> <<>>, sep |-> <<>>,
          fields |-> <<>>, cell |-> PyNone]

\* the loader's module globals and the files, before any call
InitGlobals ==
    /\ _cache_df = NoneDF
    /\ _cache_mtime = 0
    /\ held = "none"
    /\ muts = FALSE
    /\ last = NoCall
    /\ built = NoneDF
    /\ built_sig = 0
    /\ pc = [t \in Threads |-> "idle"]
    /\ mt = [t \in Threads |-> 0]
    /\ loc = [t \in Threads |-> NoneDF]
    /\ res = [t \in Threads |-> NoneDF]
    /\ fresh = [t \in Threads |-> FALSE]

\* no expected dump file on disk
InitLoader ==
    /\ fs = [f \in Files |-> Missing]
    /\ InitGlobals

\* no parser applied on its own
InitNoParse ==
    /\ arg = NoArg
    /\ ret = <<>>
    /\ fn = "none"

\* no comments file, no critical row, no request yet
InitApi ==
    /\ info = NoInfo
    /\ comments_csv = NoCommentsFile
    /\ critical = [raises |-> FALSE, n |-> 0]
    /\ req = NoRequest
    /\ resp = NoResponse

Init == InitLoader /\ InitNoParse /\ InitApi

cacheVars == <<_cache_df, _cache_mtime, built, built_sig>>

concVars == <<pc, mt, loc, res, fresh>>

parseVars == <<arg, ret, fn>>

apiVars == <<info, comments_csv, critical, req, resp>>

loaderVars == <<fs, cacheVars, held, muts, last, concVars>>

----------------------------------------------------------------------------
(* The environment: the dump files are written by other programs *)

FsChanged(kind) ==
    /\ last' = IF last.kind = "load" /\ kind \in {"mod1", "add", "remove"}
               THEN [NoCall EXCEPT !.kind = kind]
               ELSE NoCall
    /\ fresh' = [t \in Threads |-> FALSE]
    /\ UNCHANGED <<parseVars, apiVars, cacheVars, held, muts, pc, mt, loc, res>>

\* a new file appears
CreateFile(f, t, m) ==
    /\ fs[f].st = "missing"
    /\ fs' = [fs EXCEPT ![f] = [st |-> "ok", mtime |-> m, text |-> t]]
    /\ FsChanged("add")

\* a readable file is rewritten; content or modification time changes
ModifyFile(f, t, m) ==
    /\ fs[f].st = "ok"
    /\ t # fs[f].text \/ m # fs[f].mtime
    /\ fs' = [fs EXCEPT ![f] = [st |-> "ok", mtime |-> m, text |-> t]]
    /\ FsChanged(IF t # fs[f].text /\ m # fs[f].mtime THEN "mod1" ELSE "other")

DeleteFile(f) ==
    /\ fs[f].st # "missing"
    /\ fs' = [fs EXCEPT ![f] = Missing]
    /\ FsChanged("remove")

\* the file's permissions change: reads fail, or work again
ChmodFile(f) ==
    /\ fs[f].st # "missing"
    /\ fs' = [fs EXCEPT ![f].st = IF @ = "ok" THEN "unreadable" ELSE "ok"]
    /\ FsChanged("other")

Env ==
    \E f \in Files :
        \/ \E t \in TextIds, m \in Times : CreateFile(f, t, m)
        \/ \E t \in TextIds, m \in Times : ModifyFile(f, t, m)
        \/ DeleteFile(f)
        \/ ChmodFile(f)

----------------------------------------------------------------------------
(* load_sales_dataframe (line 380), one caller at a time *)

\* the signature comparison turned into an ordering test
CacheHit_newer(mtime, cdf, cmt) == mtime > 0 /\ cdf # NoneDF /\ cmt > mtime

\* line 391
CacheHit(mtime, cdf, cmt) == mtime > 0 /\ cdf # NoneDF /\ cmt = mtime

\* lines 398-413: None stays None, a table is renamed, normalised, coerced
finish(df) == IF IsDataFrame(df) THEN Canonicalize(df) ELSE df

\* lines 395-413: what a rebuild yields from the files
Rebuild(F) == finish(_load_from_sql_files(F))

ReadCount(F) == Cardinality({f \in Files : F[f].st = "ok"})

\* lines 391-415, with the signature of line 390 and the table a rebuild
\* yields from the files as they are
load_call(mtime, df) ==
    LET hit == CacheHit(mtime, _cache_df, _cache_mtime)
        out == IF hit THEN _cache_df ELSE df
        stored == ~hit /\ ~IsRaise(df)
    IN  /\ _cache_mtime' = IF hit THEN _cache_mtime ELSE mtime
        /\ _cache_df' = IF stored THEN df ELSE _cache_df
        /\ built' = IF stored THEN df ELSE built
        /\ built_sig' = IF stored THEN mtime ELSE built_sig
        /\ muts' = IF stored THEN FALSE ELSE muts
        /\ held' = IF IsDataFrame(out) THEN copy("shared")
                   ELSE IF IsRaise(out) /\ ~stored THEN held
                   ELSE "none"
        /\ last' = [kind |-> "load", out |-> out,
                    reads |-> IF hit THEN 0 ELSE ReadCount(fs),
                    hit |-> hit,
                    after |-> last.kind,
                    had_cache |-> _cache_df # NoneDF,
                    prev |-> IF last.kind = "load" THEN last.out.k ELSE "none",
                    same |-> last.kind = "load" /\ out = last.out,
                    mtime |-> mtime, muts |-> muts]
        /\ UNCHANGED <<parseVars, apiVars, fs, concVars>>

load_sales_dataframe == load_call(_source_mtime(fs), Rebuild(fs))

\* load_sales_dataframe(force_reload=True), as build_dashboard_sql.main calls
\* it: the bound definition has no such parameter
load_sales_dataframe_force_reload ==
    /\ "force_reload" \notin load_sales_dataframe_params
    /\ last' = [kind |-> "force", out |-> Raised("TypeError"), reads |-> 0,
                hit |-> FALSE, after |-> last.kind,
                had_cache |-> _cache_df # NoneDF,
                prev |-> IF last.kind = "load" THEN last.out.k ELSE "none",
                same |-> FALSE,
                mtime |-> _source_mtime(fs), muts |-> muts]
    /\ UNCHANGED <<parseVars, apiVars, fs, cacheVars, held, muts, concVars>>

----------------------------------------------------------------------------
(* What the files hold, computed apart from the loader *)

Readable(F) == {f \in Files : F[f].st = "ok"}

\* the blocks of the readable files, in file order
RECURSIVE BlocksFrom(_, _)
BlocksFrom(F, f) ==
    IF f > NumFiles THEN <<>>
    ELSE (IF F[f].st = "ok" THEN ParsedTexts[F[f].text] ELSE <<>>)
             \o BlocksFrom(F, f + 1)

RECURSIVE TuplesOf(_)
TuplesOf(blocks) ==
    IF blocks = <<>> THEN <<>> ELSE Head(blocks).rows \o TuplesOf(Tail(blocks))

\* the column list of the first block
SchemaOf(blocks) == IF blocks = <<>> THEN <<>> ELSE blocks[1].cols

FitsSchema(F) ==
    LET n == Len(SchemaOf(BlocksFrom(F, 1)))
    IN  SelectSeq(TuplesOf(BlocksFrom(F, 1)), LAMBDA r : Len(r) = n)

\* the table of the readable files' tuples
TableOfReadable(F) ==
    LET blocks == BlocksFrom(F, 1)
    IN  IF TuplesOf(blocks) = <<>> THEN NoneDF
        ELSE LET df == DataFrame(TuplesOf(blocks), SchemaOf(blocks))
             IN  IF IsDataFrame(df) THEN Canonicalize(df) ELSE df

----------------------------------------------------------------------------
(* Claims on the loader with one caller at a time *)

\* C1 (as stated): a load, then one file rewritten (content and
\* modification time), then a load: the second load returns the table built
\* from the files as they now are.
C1_FreshnessInvalidation ==
    (last.kind = "load" /\ last.after = "mod1") => last.out = Rebuild(fs)

C7_ForcedReload ==
    (last.kind = "force" /\ CacheHit(last.mtime, _cache_df, _cache_mtime))
    => (last.out = Rebuild(fs) /\ last.reads = ReadCount(fs))

\* C8 (as stated): a load never raises, whatever the files contain.
C8_NeverRaises == last.kind = "load" => ~IsRaise(last.out)

\* C9 (as stated): a rebuilt table holds exactly the tuples whose field
\* count equals the schema's column count, in order, each value in its own
\* column; the other tuples are rejected, none is padded.
C9_MismatchRejected ==
    (last.kind = "load" /\ ~last.hit /\ FitsSchema(fs) # <<>>)
    => /\ IsDataFrame(last.out)
       /\ last.out.rows
              = Canonicalize(DataFrame(FitsSchema(fs), SchemaOf(BlocksFrom(fs, 1)))).rows

\* C10: a missing or unreadable file is skipped: a rebuild yields the table
\* of the readable files' tuples, and None when no file is readable; it
\* raises only when that table cannot be built.
C10_MissingSourcesSkipped ==
    last.kind = "load"
    => /\ ~last.hit => last.out = TableOfReadable(fs)
       /\ Readable(fs) = {} /\ ~last.hit => last.out = NoneDF

C10_Witness ==
    /\ last.kind = "load" /\ ~last.hit /\ IsDataFrame(last.out)
    /\ fs[1].st # "ok" /\ fs[2].st = "ok"

\* C28 (as stated): a load, then one file added or removed, then a load: the
\* second load does not answer from the cache and returns the table of
\* the files as they now are.
C28_FileSetChange ==
    (last.kind = "load" /\ last.after \in {"add", "remove"})
    => (~last.hit /\ last.out = Rebuild(fs))

\* C24 (as stated): a load followed by a forced reload over the same files:
\* the reload yields the table the files give, equal to the first one.
C24_PureRebuild ==
    (last.kind = "force" /\ last.after = "load" /\ last.prev = "DataFrame")
    => (IsDataFrame(last.out) /\ last.out = Rebuild(fs))

----------------------------------------------------------------------------
(* A consumer that mutates the table it was given *)

\* an in-place mutation of a table (main.py line 803 assigns the column
\* total_sales of the table load_retail_data got): every cell overwritten
MutateTable(df) ==
    IF ~IsDataFrame(df) THEN df
    ELSE [df EXCEPT !.rows = [i \in 1..Len(df.rows) |->
                                 [j \in 1..Len(df.rows[i]) |-> PyFloat(<<"0">>)]]]

ConsumerMutates ==
    /\ held # "none"
    /\ _cache_df' = IF held = "shared" THEN MutateTable(_cache_df) ELSE _cache_df
    /\ muts' = TRUE
    /\ UNCHANGED <<parseVars, apiVars, fs, _cache_mtime, held, last, built, built_sig, concVars>>

\* C5: whatever a consumer does to the tables it was given, the cached table
\* stays the one the latest rebuild stored, and a cache hit returns it.
C5_DefensiveCopy ==
    /\ _cache_df = built
    /\ (last.kind = "load" /\ last.hit) => last.out = built

C5_Witness ==
    /\ last.kind = "load" /\ last.hit /\ last.muts
    /\ IsDataFrame(last.out) /\ MutateTable(last.out) # last.out

----------------------------------------------------------------------------
(* load_sales_dataframe called from several threads: the endpoints of      *)
(* main.py are plain functions, which the server runs on a thread pool,    *)
(* and the loader takes no lock.  One step per statement that reads or     *)
(* writes a module global or the files.                                    *)

ConcTexts == {1, 3, 4, 5}

\* the dump file 01 is written again, with a later modification time
EnvConc ==
    /\ fs[1].mtime < MaxConcTime
    /\ \E t \in ConcTexts :
          /\ t # fs[1].text
          /\ fs' = [fs EXCEPT ![1] = [st |-> "ok", mtime |-> fs[1].mtime + 1,
                                      text |-> t]]
    /\ fresh' = [t \in Threads |-> FALSE]
    /\ UNCHANGED <<parseVars, apiVars, cacheVars, held, muts, last, pc, mt, loc, res>>

Goto(t, label) == pc' = [pc EXCEPT ![t] = label]

\* a request calls load_sales_dataframe()
Call(t) ==
    /\ pc[t] \in {"idle", "done"}
    /\ Goto(t, "stat")
    /\ fresh' = [fresh EXCEPT ![t] = TRUE]
    /\ res' = [res EXCEPT ![t] = NoneDF]
    /\ UNCHANGED <<parseVars, apiVars, fs, cacheVars, held, muts, last, mt, loc>>

\* line 390: mtime = _source_mtime()
Stat(t) ==
    /\ pc[t] = "stat"
    /\ mt' = [mt EXCEPT ![t] = _source_mtime(fs)]
    /\ Goto(t, "check")
    /\ UNCHANGED <<parseVars, apiVars, fs, cacheVars, held, muts, last, loc, res, fresh>>

\* line 391: the test of the cache entry
Check(t) ==
    /\ pc[t] = "check"
    /\ Goto(t, IF CacheHit(mt[t], _cache_df, _cache_mtime) THEN "copy" ELSE "setm")
    /\ UNCHANGED <<parseVars, apiVars, fs, cacheVars, held, muts, last, mt, loc, res, fresh>>

\* line 392: return _cache_df.copy(); the global is read again
CopyCached(t) ==
    /\ pc[t] = "copy"
    /\ res' = [res EXCEPT ![t] = IF _cache_df = NoneDF
                                 THEN Raised("AttributeError") ELSE _cache_df]
    /\ mt' = [mt EXCEPT ![t] = 0]
    /\ Goto(t, "done")
    /\ UNCHANGED <<parseVars, apiVars, fs, cacheVars, held, muts, last, loc, fresh>>

\* line 394: _cache_mtime = mtime
SetMtime(t) ==
    /\ pc[t] = "setm"
    /\ _cache_mtime' = mt[t]
    /\ Goto(t, "build")
    /\ UNCHANGED <<parseVars, apiVars, fs, _cache_df, built, built_sig, held, muts, last, mt, loc,
                   res, fresh>>

\* the rebuild ends: with an exception, or with a table (or None) to store
built_by(t, df) ==
    IF IsRaise(df)
    THEN /\ res' = [res EXCEPT ![t] = df]
         /\ mt' = [mt EXCEPT ![t] = 0]
         /\ Goto(t, "done")
         /\ UNCHANGED loc
    ELSE /\ loc' = [loc EXCEPT ![t] = df]
         /\ Goto(t, "store")
         /\ UNCHANGED <<res, mt>>

\* lines 395-413: the files are read and the table is built, off to the side
Build(t) ==
    /\ pc[t] = "build"
    /\ built_by(t, Rebuild(fs))
    /\ UNCHANGED <<parseVars, apiVars, fs, cacheVars, held, muts, last, fresh>>

\* lines 399-400 and 414-415: the global is assigned, the call returns
Store(t) ==
    /\ pc[t] = "store"
    /\ _cache_df' = loc[t]
    /\ built' = loc[t]
    /\ built_sig' = mt[t]
    /\ res' = [res EXCEPT ![t] = loc[t]]
    /\ loc' = [loc EXCEPT ![t] = NoneDF]
    /\ mt' = [mt EXCEPT ![t] = 0]
    /\ Goto(t, "done")
    /\ UNCHANGED <<parseVars, apiVars, fs, _cache_mtime, held, muts, last, fresh>>

NextConc ==
    \/ EnvConc
    \/ \E t \in Threads :
          \/ Call(t)
          \/ Stat(t)
          \/ Check(t)
          \/ CopyCached(t)
          \/ SetMtime(t)
          \/ Build(t)
          \/ Store(t)

SpecConc == Init /\ [][NextConc]_vars

\* C3 (as stated): in every reachable state the cache entry is a complete
\* pair: a cached table goes with the signature it was built for.
C3_AtomicReplacement == _cache_df # NoneDF => _cache_mtime = built_sig

\* C4 (as stated): a call that began after the last file change returns the
\* table built from the files as they are, not the table cached before.
C4_ConcurrentCallersConverge ==
    \A t \in Threads : (pc[t] = "done" /\ fresh[t]) => res[t] = Rebuild(fs)

\* C27 (as stated): a call whose signature is older than the signature of
\* the cached table does not put its table in the place of the cached one.
C27_NoLostUpdate ==
    [][\A t \in Threads :
          (pc[t] = "store" /\ pc'[t] = "done" /\ _cache_df # NoneDF
              /\ mt[t] < built_sig)
          => _cache_df' = _cache_df]_vars

----------------------------------------------------------------------------
(* The parsers applied on their own, to arguments drawn from bounded sets *)

MaxStrLen == 3

MaxTuples == 3

MaxBlobLen == 5

\* the texts of at most n characters of A
Strs(A, n) == UNION {[1..k -> A] : k \in 0..n}

RECURSIVE replace_quote(_)
\* s.replace("'", "''")
replace_quote(s) ==
    IF s = <<>> THEN <<>>
    ELSE (IF Head(s) = "'" THEN <<"'", "'">> ELSE <<Head(s)>>)
             \o replace_quote(Tail(s))

\* "'" + s.replace("'", "''") + "'"
sql_quote(s) == <<"'">> \o replace_quote(s) \o <<"'">>

RECURSIVE join(_, _)
\* sep.join(parts)
join(parts, sep) ==
    IF parts = <<>> THEN <<>>
    ELSE IF Len(parts) = 1 THEN parts[1]
    ELSE parts[1] \o sep \o join(Tail(parts), sep)

\* the characters of the strings that are quoted and parsed back
RoundTripChars == {"'", " ", "a", ",", ")"}

\* inner texts of well-formed tuples: bare numerals and NULL, quoted strings
\* with a comma, with parentheses, with a doubled quote, and the empty string
TupleInners ==
    { <<"1">>,
      <<"'","a",",","b","'">>,
      <<"1",","," ","'","(","x",")","'">>,
      <<"'","i","t","'","'","s","'",",","N","U","L","L">>,
      <<"'","'">>,
      <<"'",")",",","(","'">> }

\* what separates the tuples of a VALUES blob
TupleSeps == { <<",">>, <<",","\n">> }

\* one field of a tuple as the dump writes it, and the value it stands for
FieldTokens ==
    { [text |-> <<"N","U","L","L">>, quoted |-> FALSE],
      [text |-> <<"n","u","l","l">>, quoted |-> FALSE],
      [text |-> <<"N","u","l","l">>, quoted |-> FALSE],
      [text |-> <<"N","U","L","L">>, quoted |-> TRUE],
      [text |-> <<"n","u","l","l">>, quoted |-> TRUE],
      [text |-> <<"a">>, quoted |-> TRUE],
      [text |-> <<"1">>, quoted |-> FALSE] }

\* the characters of a VALUES blob of any form
BlobChars == {"'", "(", ")", ",", "a"}

\* text cells of a table before normalisation: the texts pandas and Python
\* write for a missing value, the empty text, quoted and padded texts
NormTexts ==
    { <<"N","o","n","e">>,
      <<"n","o","n","e">>,
      <<"N","O","N","E">>,
      <<"n","a","n">>,
      <<"N","a","N">>,
      <<"N","A","N">>,
      <<>>,
      <<" ","n","a","n"," ">>,
      <<"'","a","'">>,
      <<"\"","'","a","'","\"">>,
      <<" ","'","a","'"," ">>,
      <<" ","a"," ">>,
      <<"a">> }

\* main.py line 243: a row needs this many fields and is cut to them
LS_NCOLS == 14

\* one attempt of the pattern of _ls_parse_insert_values at position i:
\* INSERT\s+INTO\s+sales_data\s+\([^)]+\)\s+VALUES\s+(.+) with re.DOTALL;
\* vals is group 1, which runs to the end of the content
LsMatchAt(s, i) ==
    LET fail == [ok |-> FALSE, vals |-> <<>>]
        a == i + Len(KW_INSERT)
        b == SkipWS(s, a)
        c == b + Len(KW_INTO)
        d == SkipWS(s, c)
        e == d + Len(KW_TABLE)
        f == SkipWS(s, e)
        g == IndexOf(s, ")", f + 1)
        h == SkipWS(s, g + 1)
        u == h + Len(KW_VALUES)
        w == SkipWS(s, u)
    IN  IF ~MatchWord(s, i, KW_INSERT) \/ b = a THEN fail
        ELSE IF ~MatchWord(s, b, KW_INTO) \/ d = c THEN fail
        ELSE IF ~MatchWord(s, d, KW_TABLE) \/ f = e THEN fail
        ELSE IF f > Len(s) \/ s[f] # "(" THEN fail
        ELSE IF g = 0 \/ g = f + 1 THEN fail
        ELSE IF h = g + 1 \/ ~MatchWord(s, h, KW_VALUES) THEN fail
        ELSE IF u >= Len(s) \/ s[u] \notin WS THEN fail
        ELSE [ok |-> TRUE,
              vals |-> SubSeq(s, IF w <= Len(s) THEN w ELSE Len(s), Len(s))]

\* re.search: the leftmost match
RECURSIVE ls_search(_, _)
ls_search_from(s, i, m) == IF m.ok THEN m ELSE ls_search(s, i + 1)

ls_search(s, i) ==
    IF i > Len(s) THEN [ok |-> FALSE, vals |-> <<>>]
    ELSE ls_search_from(s, i, LsMatchAt(s, i))

\* the last position of a match of \)\s*,\s*\( that begins at i, 0 when
\* there is none
SepEndAt(s, i) ==
    LET j == SkipWS(s, i + 1)
        k == SkipWS(s, j + 1)
    IN  IF /\ s[i] = ")"
           /\ j <= Len(s) /\ s[j] = ","
           /\ k <= Len(s) /\ s[k] = "("
        THEN k ELSE 0

\* re.split(r"\)\s*,\s*\(", values_part): the text between the matches,
\* whether a match lies inside a quoted string or not
RECURSIVE re_split(_, _, _)
re_split_at(s, i, start, k) ==
    IF k = 0 THEN re_split(s, i + 1, start)
    ELSE <<SubSeq(s, start, i - 1)>> \o re_split(s, k + 1, k + 1)

\* the search goes from one ")" to the next
re_split_next(s, i, start) ==
    IF i = 0 THEN <<SubSeq(s, start, Len(s))>>
    ELSE re_split_at(s, i, start, SepEndAt(s, i))

re_split(s, i, start) == re_split_next(s, IndexOf(s, ")", i), start)

\* lines 242-244: a row of at least 14 fields is kept, cut to 14
ls_row(row) == IF Len(row) >= LS_NCOLS THEN <<SubSeq(row, 1, LS_NCOLS)>> ELSE <<>>

\* lines 238-241: part.strip().strip("()"), an empty part is skipped
ls_part(part) == IF part = <<>> THEN <<>> ELSE ls_row(csv_first_row(part))

RECURSIVE ls_rows(_)
ls_rows(parts) ==
    IF parts = <<>> THEN <<>>
    ELSE ls_part(strip_chars(strip(Head(parts)), {"(", ")"})) \o ls_rows(Tail(parts))

\* lines 233-236: match.group(1).strip().rstrip(");").strip()
ls_values_part(m) == strip(rstrip(strip(m.vals), {")", ";"}))

ls_split_rows(values_part) ==
    IF values_part = <<>> THEN <<>> ELSE ls_rows(re_split(values_part, 1, 1))

ls_rows_of_match(m) == IF m.ok THEN ls_split_rows(ls_values_part(m)) ELSE <<>>

_ls_parse_insert_values(content) == ls_rows_of_match(ls_search(content, 1))

\* csv_to_sql.py line 98: the head of a statement of a dump file, with 14
\* column names of one letter
LsHeader ==
    <<"I","N","S","E","R","T"," ","I","N","T","O"," ","s","a","l",
    "e","s","_","d","a","t","a"," ","(","a",",","b",",","c",",",
    "d",",","e",",","f",",","g",",","h",",","i",",","j",",","k",
    ",","l",",","m",",","n",")"," ","V","A","L","U","E","S","\n">>

\* the texts of the first field (sale_id) of a tuple: plain, with a comma,
\* with parentheses, with the sequence "), (", with an apostrophe
LsFirstFields ==
    { <<"a">>,
      <<"a",",","b">>,
      <<"a","(","b",")">>,
      <<"a",")",","," ","(","b">>,
      <<"i","t","'","s">> }

\* csv_to_sql.py lines 101-118: a tuple of 14 fields, strings quoted and
\* numbers bare, joined with ", "; x is the text of the first field
ls_tuple(x) ==
    <<"(">> \o join(<<sql_quote(x), <<"2">>, <<"3">>, <<"4">>, <<"5">>,
                      sql_quote(<<"n">>), <<"7">>, <<"8">>, <<"9">>, <<"0">>,
                      <<"1">>, <<"2">>, <<"3">>, <<"4">> >>, <<",", " ">>) \o <<")">>

\* csv_to_sql.py lines 98-127: one statement
ls_statement(xs, sep) ==
    LsHeader \o join([j \in 1..Len(xs) |-> ls_tuple(xs[j])], sep) \o <<"\n", ";", "\n">>

\* dump file texts: a statement of one or two tuples, alone or followed by
\* a statement of one tuple
LsTexts ==
    LET firsts == UNION {[1..k -> LsFirstFields] : k \in 1..2}
    IN  {ls_statement(xs, sep) : xs \in firsts, sep \in TupleSeps}
        \cup {ls_statement(xs, sep) \o ls_statement(<<y>>, sep) :
                 xs \in firsts, sep \in TupleSeps, y \in LsFirstFields}

\* the characters of the arguments of _strip_wrapping_quotes
StripChars == {"'", "\"", " ", "a"}

ParseArgs ==
    {[NoArg EXCEPT !.f = "roundtrip", !.s = x] :
        x \in {y \in Strs(RoundTripChars, MaxStrLen) : \E i \in 1..Len(y) : y[i] = "'"}}
    \cup {[NoArg EXCEPT !.f = "tuples", !.inners = ts, !.sep = sp] :
             ts \in UNION {[1..k -> TupleInners] : k \in 0..MaxTuples}, sp \in TupleSeps}
    \cup {[NoArg EXCEPT !.f = "fields", !.fields = ft] :
             ft \in UNION {[1..k -> FieldTokens] : k \in 1..2}}
    \cup {[NoArg EXCEPT !.f = "strip", !.cell = c] :
             c \in {PyNone} \cup {PyStr(x) : x \in Strs(StripChars, MaxStrLen)}}
    \cup {[NoArg EXCEPT !.f = "blob", !.s = x] : x \in Strs(BlobChars, MaxBlobLen)}
    \cup {[NoArg EXCEPT !.f = "normalize", !.cell = c] :
             c \in {PyNone} \cup {PyStr(x) : x \in NormTexts}}
    \cup {[NoArg EXCEPT !.f = "normalize_none"]}
    \cup {[NoArg EXCEPT !.f = "fallback", !.s = x] : x \in LsTexts}

InitParse ==
    /\ InitLoader
    /\ InitApi
    /\ arg \in ParseArgs
    /\ ret = <<>>
    /\ fn = "none"

\* a parser returns
Returns(f, value) ==
    /\ fn = "none"
    /\ arg.f = f
    /\ fn' = f
    /\ ret' = value
    /\ UNCHANGED <<arg, loaderVars, apiVars>>

\* the parsed tuples of a VALUES blob (lines 169-170)
parse_blob(blob) == rows_of(_iter_tuple_texts(blob))

\* a quoted string written as the second field of a tuple and parsed back
RoundTrip ==
    Returns("roundtrip",
            parse_blob(<<"(", "1", ",", " ">> \o sql_quote(arg.s) \o <<")">>))

\* the blob of the tuples: (t1),(t2),...
blob_of(inners, sep) ==
    join([j \in 1..Len(inners) |-> <<"(">> \o inners[j] \o <<")">>], sep)

\* _iter_tuple_texts on a blob of well-formed tuples
IterTupleTexts ==
    Returns("tuples", _iter_tuple_texts(blob_of(arg.inners, arg.sep)))

\* a field as the dump writes it
field_text(t) == IF t.quoted THEN sql_quote(t.text) ELSE t.text

\* _parse_insert_values on the inner text of a tuple
ParseInsertValues ==
    Returns("fields",
            _parse_insert_values(
                join([j \in 1..Len(arg.fields) |-> field_text(arg.fields[j])], <<",", " ">>)))

\* _strip_wrapping_quotes on one value
StripWrappingQuotes == Returns("strip", _strip_wrapping_quotes(arg.cell))

\* _iter_tuple_texts on a blob of any form
ScanBlob == Returns("blob", _iter_tuple_texts(arg.s))

\* _normalize_text_columns on a table of one text column and one row, and
\* on None
NormalizeTextColumns ==
    \/ Returns("normalize",
               _normalize_text_columns(DataFrame(<< <<arg.cell>> >>, <<COL_city>>)))
    \/ Returns("normalize_none", _normalize_text_columns(NoneDF))

\* _ls_parse_insert_values on the text of a dump file
LsParseInsertValues == Returns("fallback", _ls_parse_insert_values(arg.s))

NextParse ==
    \/ RoundTrip
    \/ IterTupleTexts
    \/ ParseInsertValues
    \/ StripWrappingQuotes
    \/ ScanBlob
    \/ NormalizeTextColumns
    \/ LsParseInsertValues

SpecParse == InitParse /\ [][NextParse]_vars

\* C11 (as stated): a string holding an apostrophe, quoted with its
\* apostrophes doubled and written as a field of a tuple, is parsed back to
\* exactly that string.
C11_EscapingRoundTrip ==
    fn = "roundtrip" => ret = << <<PyStr(<<"1">>), PyStr(arg.s)>> >>

\* C12: a blob of N well-formed tuples yields exactly N tuple texts, in
\* order, each the inner text of its tuple.
C12_TupleCount == fn = "tuples" => ret = arg.inners

C12_Witness ==
    /\ fn = "tuples" /\ Len(ret) = MaxTuples
    /\ ret[1] = <<"'",")",",","(","'">>
    /\ ret[2] = <<"'","i","t","'","'","s","'",",","N","U","L","L">>
    /\ ret[3] # ret[1]

\* C13 (as stated): a bare NULL in any letter case is parsed to None, the
\* quoted 'NULL' to the text NULL, and there is one value per field.
C13_NullVersusQuotedNull ==
    fn = "fields"
    => /\ Len(ret) = Len(arg.fields)
       /\ \A j \in 1..Len(arg.fields) :
             ret[j] = IF ~arg.fields[j].quoted /\ upper(arg.fields[j].text) = NULL_TOKEN
                      THEN PyNone
                      ELSE PyStr(arg.fields[j].text)

\* C17 (as stated): _strip_wrapping_quotes returns a string for every
\* input: "" for None and for "", the inner text without surrounding
\* whitespace for a string whose trimmed form is wrapped in a pair of single
\* or of double quotes, the trimmed form for any other string.
C17_StripWrappingQuotes ==
    fn = "strip"
    => /\ ret.k = "str"
       /\ arg.cell = PyNone => ret.v = <<>>
       /\ arg.cell.k = "str"
              => LET t == strip(arg.cell.v)
                     wrapped == /\ Len(t) >= 2
                                /\ t[1] = t[Len(t)]
                                /\ t[1] \in {"'", "\""}
                 IN  ret.v = IF wrapped THEN strip(SubSeq(t, 2, Len(t) - 1)) ELSE t

\* the scanner as specified: a quote followed by a quote is skipped, both
\* characters, inside a string or outside; any other quote toggles the
\* in-string flag; outside a string ( opens a tuple when none is open and
\* ) closes the open one (start = 0: no tuple open)
RECURSIVE specified_scanner(_, _, _, _)
specified_scanner(b, i, in_string, start) ==
    IF i > Len(b) THEN <<>>
    ELSE IF b[i] = "'" /\ i + 1 <= Len(b) /\ b[i + 1] = "'"
    THEN specified_scanner(b, i + 2, in_string, start)
    ELSE IF b[i] = "'"
    THEN specified_scanner(b, i + 1, ~in_string, start)
    ELSE IF ~in_string /\ b[i] = "(" /\ start = 0
    THEN specified_scanner(b, i + 1, in_string, i + 1)
    ELSE IF ~in_string /\ b[i] = ")" /\ start # 0
    THEN <<SubSeq(b, start, i - 1)>> \o specified_scanner(b, i + 1, in_string, 0)
    ELSE specified_scanner(b, i + 1, in_string, start)

\* C22: on every blob over quote, parentheses, comma and a letter,
\* _iter_tuple_texts yields the tuple texts the specified scanner yields.
C22_ScannerEquivalence ==
    fn = "blob" => ret = specified_scanner(arg.s, 1, FALSE, 0)

C22_Witness ==
    /\ fn = "blob"
    /\ arg.s = <<"'", "'", "(", "a", ")">>
    /\ ret = << <<"a">> >>

\* C26 (as stated): after normalisation no text cell keeps wrapping quotes
\* or surrounding whitespace, a cell that was empty or a case variant of
\* none or nan is the empty text, and None is returned as it is.
C26_NormalizedText ==
    /\ fn = "normalize_none" => ret = NoneDF
    /\ (fn = "normalize" /\ arg.cell.k = "str")
       => LET v == ret.rows[1][1].v
          IN  /\ ret.rows[1][1].k = "str"
              /\ strip(v) = v
              /\ ~(Len(v) >= 2 /\ v[1] = v[Len(v)] /\ v[1] \in {"'", "\""})
              /\ upper(v) \notin {<<"N","O","N","E">>, <<"N","A","N">>}

\* the rows the model-server pipeline reads from a text (lines 167-170)
RECURSIVE pipeline_rows(_)
pipeline_rows(blocks) ==
    IF blocks = <<>> THEN <<>>
    ELSE parse_blob(Head(blocks).vals) \o pipeline_rows(Tail(blocks))

\* the fields of the fallback's rows as the str values they are
str_rows(rows) == [n \in 1..Len(rows) |-> [j \in 1..Len(rows[n]) |-> PyStr(rows[n][j])]]

\* C30 (as stated): on a dump file text of 14 columns the fallback loader
\* yields the rows of the model-server pipeline: as many, in the same order,
\* with the same field values.
C30_LoadersAgree ==
    fn = "fallback" => str_rows(ret) = pipeline_rows(_extract_insert_blocks(arg.s))

----------------------------------------------------------------------------
(* End-to-end scenarios: the files stay as they are while the loader and   *)
(* get_data_source_info are called                                          *)

\* line 28: the one-character string whose character is U+B300
QUANTITY_UNIT == "U+B300"

\* the texts a scenario file holds: TXT_ONE and the scenario texts
ScenarioIds == {1} \cup ((Len(Texts) + 1)..(Len(Texts) + Len(ScenarioTexts)))

ScenarioFiles ==
    {Missing} \cup [st : {"ok", "unreadable"}, mtime : Times, text : ScenarioIds]

InitScenario ==
    /\ fs \in [Files -> ScenarioFiles]
    /\ InitGlobals
    /\ InitNoParse
    /\ InitApi

\* only a file that can be read exists
exists_readable(F, f) == F[f].st = "ok"

\* p.exists(): true of an unreadable file too
exists(F, f) == F[f].st # "missing"

\* lines 418-429
get_data_source_info ==
    /\ info' = [calls |-> 1,
                source |-> IF \E f \in Files : exists(fs, f) THEN "sql" ELSE "none",
                sql_file_count |-> Cardinality({f \in Files : exists(fs, f)}),
                quantity_unit |-> QUANTITY_UNIT]
    /\ UNCHANGED <<parseVars, loaderVars, comments_csv, critical, req, resp>>

NextScenario ==
    \/ load_sales_dataframe
    \/ get_data_source_info

SpecScenario == InitScenario /\ [][NextScenario]_vars

\* the first field of every tuple of a scenario text, in text order
FirstCells(n) ==
    IF n = 1 THEN <<PyStr(<<"A">>), PyNone>>
    ELSE IF n = Len(Texts) + Len(ScenarioTexts)
         THEN <<PyStr(<<"P">>), PyStr(<<"Q">>), PyStr(<<"R">>)>>
    ELSE <<PyStr(<<"1">>), PyStr(<<"2">>), PyStr(<<"3">>)>>

\* the first fields of the readable files from file f on, in file order
RECURSIVE KeysFrom(_, _)
KeysFrom(F, f) ==
    IF f > NumFiles THEN <<>>
    ELSE (IF F[f].st = "ok" THEN FirstCells(F[f].text) ELSE <<>>)
             \o KeysFrom(F, f + 1)

\* exactly one file exists, it is readable and holds text n
OnlyFile(n) ==
    \E f \in Files : /\ fs[f] \in [st : {"ok"}, mtime : Times, text : {n}]
                     /\ \A g \in Files \ {f} : fs[g] = Missing

\* the scenario's table with the given third column
ScenarioTable(third, c1, c2, c3) ==
    [k |-> "DataFrame",
     cols |-> << <<"i","d">>, <<"n","a","m","e">>, third >>,
     rows |-> << <<PyStr(<<"1">>), PyStr(<<"O","'","B","r","i","e","n">>), c1>>,
                 <<PyStr(<<"2">>), PyNone, c2>>,
                 <<PyStr(<<"3">>), PyStr(<<"A",","," ","B">>), c3>> >>]

\* C14 (as stated): loading the one file of the scenario yields 3 rows, id
\* the texts 1, 2, 3, name O'Brien, null and "A, B", amount the numbers
\* 19.99 and 5 and null for the third row.
C14_Scenario ==
    (last.kind = "load" /\ OnlyFile(Len(Texts) + 1))
    => last.out = ScenarioTable(COL_amount, PyFloat(<<"1","9",".","9","9">>),
                                PyFloat(<<"5">>), NaN)

\* C14 (amended): the scenario yields 3 rows, id the texts 1, 2, 3, name
\* O'Brien, null and "A, B", and amount the texts 19.99, 5 and x, amount
\* not being one of the columns the loader coerces; with the third column
\* named price its values are the numbers 19.99 and 5 and null.
C14_ScenarioAmountStaysText ==
    last.kind = "load"
    => /\ OnlyFile(Len(Texts) + 1)
          => last.out = ScenarioTable(COL_amount, PyStr(<<"1","9",".","9","9">>),
                                      PyStr(<<"5">>), PyStr(<<"x">>))
       /\ OnlyFile(Len(Texts) + 2)
          => last.out = ScenarioTable(COL_price, PyFloat(<<"1","9",".","9","9">>),
                                      PyFloat(<<"5">>), NaN)

C14_Witness ==
    /\ last.kind = "load" /\ ~last.hit
    /\ OnlyFile(Len(Texts) + 1)
    /\ Len(last.out.rows) = 3
    /\ last.out.rows[3][3] = PyStr(<<"x">>)

\* C15: the rows of a loaded table are in source order: files in ascending
\* order, within a file the blocks in text order, within a block the tuples
\* in text order; every load of the same files gives that order.
C15_RowOrder ==
    (last.kind = "load" /\ IsDataFrame(last.out))
    => [i \in 1..Len(last.out.rows) |-> last.out.rows[i][1]] = KeysFrom(fs, 1)

C15_Witness ==
    /\ last.kind = "load" /\ last.after = "load" /\ IsDataFrame(last.out)
    /\ fs[1].st = "ok" /\ fs[1].text = Len(Texts) + Len(ScenarioTexts)
    /\ fs[2].st = "ok" /\ fs[2].text = 1
    /\ Len(last.out.rows) = 5
    /\ last.out.rows[3][1] = PyStr(<<"R">>)
    /\ last.out.rows[4][1] = PyStr(<<"A">>)

\* C16: get_data_source_info returns source sql, csv or none, the number of
\* expected dump files that exist as sql_file_count, and quantity_unit; the
\* source is sql exactly when the count is positive; the call leaves the
\* loader's cache as it is.
C16_DataSourceInfo ==
    /\ [](info.calls > 0
          => /\ info.source \in {"sql", "csv", "none"}
             /\ info.sql_file_count \in Nat
             /\ info.sql_file_count
                    = Cardinality({f \in Files : fs[f].st # "missing"})
             /\ info.quantity_unit = "U+B300"
             /\ (info.source = "sql" <=> info.sql_file_count > 0))
    /\ [][get_data_source_info => UNCHANGED <<_cache_df, _cache_mtime>>]_vars

C16_Witness ==
    /\ info.calls = 1 /\ info.source = "sql" /\ info.sql_file_count = 2
    /\ fs[1].st = "unreadable" /\ fs[2].st = "ok"
    /\ _cache_df # NoneDF

----------------------------------------------------------------------------
(* backend/main.py: the inventory comments and the critical alerts *)

MaxComments == 2

MaxCritical == 2

\* line 1431: the largest limit passed on to the pipeline
LIMIT_CAP == 200

\* the requests.  A body is a JSON object, another JSON value, or no JSON;
\* a field of an object is absent, an empty or blank string, a number
\* other than 0, or the text named
Requests ==
    [path : {"post"}, body : {"object"},
     product_name : {"absent", "empty", "number", "p"},
     store_name : {"absent", "s"},
     comment : {"absent", "blank", "number", "one", "two"},
     author : {"absent", "number", "a"},
     limit : {0}]
    \cup {[NoRequest EXCEPT !.path = "post", !.body = b] : b \in {"array", "invalid"}}
    \cup {[NoRequest EXCEPT !.path = "alerts", !.limit = l] :
             l \in {-1, 0, 1, MaxCritical, LIMIT_CAP, LIMIT_CAP + 1}}

InitApiServer ==
    /\ InitLoader
    /\ InitNoParse
    /\ info = NoInfo
    /\ comments_csv = NoCommentsFile
    /\ critical \in [raises : {FALSE}, n : 0..MaxCritical \cup {LIMIT_CAP + 1}]
                        \cup {[raises |-> TRUE, n |-> 0]}
    /\ req = NoRequest
    /\ resp = NoResponse

\* lines 1445-1461: without a header line csv.DictReader takes the first row
\* for the field names, and no later row has a field of the expected names
_read_inventory_comments(file) ==
    IF ~file.exists THEN <<>>
    ELSE IF file.header THEN file.rows
    ELSE [i \in 1..(Len(file.rows) - 1) |->
             [product_name |-> "", comment |-> "", author |-> "", created_at |-> ""]]

\* lines 1464-1475; author or the default author, created_at the time of the call
_append_inventory_comment(file, product_name, comment, author) ==
    [exists |-> TRUE,
     header |-> IF file.exists THEN file.header ELSE TRUE,
     rows |-> Append(file.rows,
                  [product_name |-> product_name, comment |-> comment,
                   author |-> IF author = "" THEN "DEFAULT_AUTHOR" ELSE author,
                   created_at |-> "now"])]

\* (body.get(key) or "").strip() of a value that is not a number
or_empty_strip(v) == IF v \in {"absent", "empty", "blank"} THEN "" ELSE v

\* the answer to a request and the comments file after it
Answer(status, ok, comments, file) ==
    /\ resp' = [NoResponse EXCEPT !.status = status, !.ok = ok,
                                  !.error = (status = 200 /\ ~ok),
                                  !.comments = comments,
                                  !.before = _read_inventory_comments(comments_csv)]
    /\ comments_csv' = file

\* lines 1484-1499: a body that is no object counts as {}; .strip() of a
\* number raises AttributeError, which the server answers with status 500
api_inventory_comments_post(r) ==
    /\ r.path = "post"
    /\ req' = r
    /\ IF "number" \in {r.product_name, r.comment, r.author}
       THEN Answer(500, FALSE, <<>>, comments_csv)
       ELSE IF or_empty_strip(r.product_name) = "" \/ or_empty_strip(r.comment) = ""
       THEN Answer(200, FALSE, <<>>, comments_csv)
       ELSE /\ Len(comments_csv.rows) < MaxComments
            /\ Answer(200, TRUE,
                   _read_inventory_comments(
                       _append_inventory_comment(comments_csv,
                           or_empty_strip(r.product_name),
                           or_empty_strip(r.comment), or_empty_strip(r.author))),
                   _append_inventory_comment(comments_csv,
                       or_empty_strip(r.product_name),
                       or_empty_strip(r.comment), or_empty_strip(r.author)))
    /\ UNCHANGED <<parseVars, loaderVars, info, critical>>

\* limit with no upper cap
clamp_limit_nocap(limit) == IF limit < 1 THEN 1 ELSE limit

\* line 1431: min(max(1, limit), 200)
clamp_limit(limit) ==
    IF limit < 1 THEN 1 ELSE IF limit > LIMIT_CAP THEN LIMIT_CAP ELSE limit

\* Inventory Optimization.py lines 658-660: critical.shape[0] and
\* critical.head(limit), the rows named by their rank in Health_Index
get_inventory_critical_alerts(n, limit) ==
    [NoResponse EXCEPT !.status = 200, !.critical_count = n,
        !.critical_items = [i \in 1..(IF n < limit THEN n ELSE limit) |-> i]]

\* lines 1425-1434: an exception of the pipeline is answered with no item
api_inventory_critical_alerts(r) ==
    /\ r.path = "alerts"
    /\ req' = r
    /\ resp' = IF critical.raises THEN [NoResponse EXCEPT !.status = 200]
               ELSE get_inventory_critical_alerts(critical.n, clamp_limit(r.limit))
    /\ UNCHANGED <<parseVars, loaderVars, info, comments_csv, critical>>

NextApi ==
    \/ \E r \in Requests : api_inventory_comments_post(r)
    \/ \E r \in Requests : api_inventory_critical_alerts(r)

SpecApi == InitApiServer /\ [][NextApi]_vars

\* C18 (as stated): a POST whose body has no non-empty comment is answered
\* with ok=false and an error, and the stored comments are as before.
C18_PostWithoutComment ==
    (req.path = "post" /\ req.comment \in {"absent", "blank"})
    => /\ resp.status = 200 /\ ~resp.ok /\ resp.error
       /\ _read_inventory_comments(comments_csv) = resp.before

\* C19 (as stated): a POST with a non-empty store_name, a non-empty comment
\* and an author is answered with ok=true and the comments, which are the
\* comments stored before, in order, followed by the new one.
C19_PostAccepted ==
    (/\ req.path = "post" /\ req.store_name = "s"
     /\ req.comment \in {"one", "two"} /\ req.author = "a")
    => /\ resp.status = 200 /\ resp.ok
       /\ Len(resp.comments) = Len(resp.before) + 1
       /\ SubSeq(resp.comments, 1, Len(resp.before)) = resp.before
       /\ resp.comments[Len(resp.comments)].comment = req.comment
       /\ resp.comments[Len(resp.comments)].author = req.author

\* C20 (as stated): for every integer limit the alerts hold at most limit
\* critical items.
C20_AtMostLimit ==
    (req.path = "alerts" /\ resp.status = 200)
    => Len(resp.critical_items) <= req.limit

\* C20 (amended): the alerts hold at most min(max(1, limit), 200) critical
\* items, which is at most limit for every limit of 1 or more.
C20_AtMostClampedLimit ==
    (req.path = "alerts" /\ resp.status = 200)
    => /\ Len(resp.critical_items) <= LIMIT_CAP
       /\ req.limit >= 1 => Len(resp.critical_items) <= req.limit
       /\ req.limit < 1 => Len(resp.critical_items) <= 1

C20_Witness ==
    /\ req.path = "alerts" /\ req.limit = LIMIT_CAP + 1
    /\ resp.critical_count = LIMIT_CAP + 1
    /\ Len(resp.critical_items) = LIMIT_CAP

----------------------------------------------------------------------------
(* Statements and blocks: files that hold several statements, statements   *)
(* for another table, an empty block, a semicolon in a string              *)

\* the number of the text t among the texts a file can hold
TextId(t) == CHOOSE n \in 1..Len(AllTexts) : AllTexts[n] = t

BlockFiles ==
    {Missing} \cup [st : {"ok"}, mtime : Times,
                    text : {TextId(BlockTexts[k]) : k \in 1..Len(BlockTexts)}]

InitBlocks ==
    /\ fs \in [Files -> BlockFiles]
    /\ InitGlobals
    /\ InitNoParse
    /\ InitApi

\* _extract_insert_blocks(text) on the text of a readable file
ExtractInsertBlocks(f) ==
    /\ fs[f].st = "ok"
    /\ fn' = "blocks"
    /\ arg' = [NoArg EXCEPT !.f = "blocks", !.s = AllTexts[fs[f].text]]
    /\ ret' = _extract_insert_blocks(AllTexts[fs[f].text])
    /\ UNCHANGED <<loaderVars, apiVars>>

NextBlocks ==
    \/ load_sales_dataframe
    \/ \E f \in Files : ExtractInsertBlocks(f)

SpecBlocks == InitBlocks /\ [][NextBlocks]_vars

\* the column list, renamed, of the first block that has a tuple
SchemaOfFirstYielding(blocks) ==
    LET n == CHOOSE n \in 1..Len(blocks) :
                 /\ blocks[n].rows # <<>>
                 /\ \A m \in 1..(n - 1) : blocks[m].rows = <<>>
    IN  [j \in 1..Len(blocks[n].cols) |-> rename_map(blocks[n].cols[j])]

\* C21 (as stated): the schema of a loaded table is the column list of the
\* first block that yielded a tuple; a block with no tuple before it does
\* not fix the schema.
C21_SchemaOfFirstYieldingBlock ==
    (last.kind = "load" /\ ~last.hit /\ IsDataFrame(last.out))
    => last.out.cols = SchemaOfFirstYielding(BlocksFrom(fs, 1))

\* the number of INSERT INTO sales_data statements of a text
SalesStatements(t) ==
    IF t = TXT_OTHER THEN 0 ELSE IF t = TXT_BADNUM THEN 1 ELSE 2

\* C23: _extract_insert_blocks returns one block per INSERT INTO sales_data
\* statement, in text order, with the statement's columns; a statement for
\* another table gives no block and none of its tuples is in the table.
C23_OneBlockPerStatement ==
    /\ fn = "blocks"
       => /\ Len(ret) = SalesStatements(arg.s)
          /\ arg.s = TXT_MIXED
             => /\ \A n \in 1..2 : ret[n].cols = <<COL_city, COL_price>>
                /\ ret[1].vals = <<"(","'","P","'",",","1",")",",","\n",
                                   "(","'","Q","'",",","2",")">>
                /\ ret[2].vals = <<"(","'","R","'",",","3",")">>
          /\ arg.s = TXT_EMPTYFIRST
             => /\ ret[1].cols = <<COL_country, COL_price>> /\ ret[1].vals = <<>>
                /\ ret[2].cols = <<COL_city, COL_price>>
    /\ (last.kind = "load" /\ IsDataFrame(last.out))
       => \A i \in 1..Len(last.out.rows) :
              /\ last.out.rows[i][1] # PyStr(<<"Z">>)
              /\ \A j \in 1..Len(last.out.rows[i]) :
                     last.out.rows[i][j] \notin {PyStr(<<"9">>), PyFloat(<<"9">>)}

C23_Witness ==
    /\ fn = "blocks" /\ arg.s = TXT_MIXED /\ Len(ret) = 2
    /\ last.kind = "load" /\ IsDataFrame(last.out)
    /\ OnlyFile(TextId(TXT_MIXED))
    /\ Len(last.out.rows) = 3
    /\ last.out.rows[3][1] = PyStr(<<"R">>)

\* C25 (as stated): a cell of a numeric column that is no number becomes
\* null in price and total_sales and 0 in quantity; the row is kept and its
\* other cells are unchanged.
C25_CoercionPolicy ==
    (last.kind = "load" /\ OnlyFile(TextId(TXT_BADNUM)))
    => /\ IsDataFrame(last.out)
       /\ last.out.rows
            = << <<PyStr(<<"T">>), PyFloat(<<"0">>), NaN>>,
                 <<PyStr(<<"U">>), PyFloat(<<"3">>), PyFloat(<<"4">>)>> >>

\* C29 (as stated): a semicolon inside a quoted string does not end the
\* statement: every tuple is loaded and the field keeps its full value.
C29_SemicolonInString ==
    (last.kind = "load" /\ OnlyFile(TextId(TXT_SEMI)))
    => /\ IsDataFrame(last.out)
       /\ last.out.rows
            = << <<PyStr(<<"x",";","y">>), PyFloat(<<"1">>)>>,
                 <<PyStr(<<"S">>), PyFloat(<<"4">>)>>,
                 <<PyStr(<<"R">>), PyFloat(<<"3">>)>> >>

NextConsumer ==
    \/ Env
    \/ load_sales_dataframe
    \/ ConsumerMutates

SpecConsumer == Init /\ [][NextConsumer]_vars

Next ==
    \/ Env
    \/ load_sales_dataframe
    \/ load_sales_dataframe_force_reload

Spec == Init /\ [][Next]_vars
====
